---- MODULE Spec2Model ----
(***************************************************************************)
(* Streaming multipart/form-data parser (MultipartParser), its header      *)
(* model (Header, Headers, HeadersBuilder) and the record it drives.       *)
(* A byte is a one-character string, a byte string or a Rust String is a   *)
(* sequence of bytes. Only ASCII bytes occur, so String::from_utf8 always  *)
(* succeeds on them.                                                       *)
(***************************************************************************)
EXTENDS Integers, Sequences, FiniteSets, TLC

VARIABLES
    input,      \* the byte stream the caller is going to feed
    pos,        \* number of bytes of input already passed to write
    parts,      \* the parts input was built from; empty when it is malformed
    form,       \* the record description: field descriptors
    reply,      \* what the record's error handler answers when it is asked
    parser,     \* the fields of struct MultipartParser
    trace,      \* calls made on the dispatcher, the sinks and the record
    outcome,    \* how the last call on the parser ended
    flushes,    \* number of flush() calls made on the parser
    late,       \* number of write calls made after the first flush()
    single,     \* the whole stream was passed to write in one call
    hooked,     \* the names the record's own content_parser returns a sink for
    hlines,     \* header lines handed to Headers::new
    hbuilt,     \* what Headers::new returned for hlines, None before the call
    chosen,     \* what the dispatcher returned for hbuilt, None before the call
    default_processor,  \* a DefaultProcessor driven directly by its caller
    token,      \* the boundary token the parser was constructed with
    maker       \* the constructor used: "str" (new_from_str) or "vec"

\* the variables of the library objects used without the parser
apart == <<hooked, hlines, hbuilt, chosen, default_processor>>

\* what the constructor was given
given == <<token, maker>>

vars == <<input, pos, parts, form, reply, parser, trace, outcome, flushes, late, single,
          hooked, hlines, hbuilt, chosen, default_processor, token, maker>>

(***************************************************************************)
(* Bounds of the model.                                                    *)
(***************************************************************************)
MaxBody == 2
MaxChunk == 1
MaxLimit == 1
MaxToken == 3
MaxFlush == 1
MaxLate == 1
MaxWide == 3

(***************************************************************************)
(* Bytes.                                                                  *)
(***************************************************************************)
CR == "\r"
LF == "\n"
DASH == "-"
\* Option<T>: None is the empty sequence, Some(x) the one-element sequence
None == <<>>
Some(x) == <<x>>
Unwrap(o) == o[1]

\* Let(x, F) is F(x) with x evaluated once, as a Rust let binding does
Let(x, F(_)) == CHOOSE r \in {F(v) : v \in {x}} : TRUE

\* std: char::is_whitespace restricted to the bytes of the model
WhiteSpace == {" ", "\t", CR, LF}

\* std: str::split(separator), the pieces between the separators
RECURSIVE Split(_, _)
Split(str, separator) ==
    Let(str, LAMBDA s :
        IF \A i \in DOMAIN s : s[i] # separator
        THEN <<s>>
        ELSE Let(CHOOSE j \in DOMAIN s :
                     s[j] = separator /\ \A k \in 1..(j - 1) : s[k] # separator,
                 LAMBDA i :
                     <<SubSeq(s, 1, i - 1)>>
                         \o Split(SubSeq(s, i + 1, Len(s)), separator)))

\* std: str::trim_matches(pat) for a set of bytes: strips every leading and
\* every trailing byte of the set
TrimSet(str, set) ==
    Let(str, LAMBDA s :
        Let({i \in DOMAIN s : s[i] \notin set}, LAMBDA keep :
            IF keep = {} THEN <<>>
            ELSE SubSeq(s, CHOOSE i \in keep : \A j \in keep : i <= j,
                           CHOOSE i \in keep : \A j \in keep : j <= i)))

\* std: str::trim
Trim(s) == TrimSet(s, WhiteSpace)

\* std: str::trim_matches('"')
TrimMatches(s, c) == TrimSet(s, {c})

\* HashMap::insert
Insert(map, k, v) == [x \in (DOMAIN map) \cup {k} |-> IF x = k THEN v ELSE map[x]]

EmptyMap == [x \in {} |-> <<>>]

(***************************************************************************)
(* Header model (header.rs). A function that can panic returns a record    *)
(* with ok = FALSE when it does.                                           *)
(***************************************************************************)
ContentDisposition ==
    <<"C","o","n","t","e","n","t","-","D","i","s","p","o","s","i","t","i","o","n">>
NameKey == <<"n","a","m","e">>
FilenameKey == <<"f","i","l","e","n","a","m","e">>

\* Header::to_key_value
to_key_value(s, separator) ==
    Let(Split(s, separator), LAMBDA strings :
        IF Len(strings) # 2
        THEN [ok |-> FALSE, key |-> <<>>, value |-> <<>>]
        ELSE [ok |-> TRUE, key |-> Trim(strings[1]), value |-> Trim(strings[2])])

\* Header::new, the loop over the parameters
RECURSIVE HeaderFields(_, _)
HeaderFields(strings, fields) ==
    IF strings = <<>> THEN [ok |-> TRUE, fields |-> fields]
    ELSE Let(to_key_value(Head(strings), "="), LAMBDA kv :
             IF ~kv.ok THEN [ok |-> FALSE, fields |-> fields]
             ELSE Let(Insert(fields, kv.key, TrimMatches(kv.value, "\"")),
                      LAMBDA inserted : HeaderFields(Tail(strings), inserted)))

\* Header::new
HeaderNew(s) ==
    Let(Split(s, ";"), LAMBDA strings :
        Let(to_key_value(Head(strings), ":"), LAMBDA nv :
            Let(HeaderFields(Tail(strings), EmptyMap), LAMBDA fs :
                [ok |-> nv.ok /\ fs.ok, name |-> nv.key, value |-> nv.value,
                 fields |-> fs.fields])))

\* Headers::new, the loop over the lines
RECURSIVE HeadersNewFrom(_, _)
HeadersNewFrom(header_lines, headers) ==
    IF header_lines = <<>> THEN [ok |-> TRUE, headers |-> headers]
    ELSE Let(HeaderNew(Head(header_lines)), LAMBDA header :
             IF ~header.ok THEN [ok |-> FALSE, headers |-> headers]
             ELSE Let(Insert(headers, header.name,
                             [name |-> header.name, value |-> header.value,
                              fields |-> header.fields]),
                      LAMBDA inserted : HeadersNewFrom(Tail(header_lines), inserted)))

\* Headers::new
HeadersNew(header_lines) == HeadersNewFrom(header_lines, EmptyMap)

\* Headers::get
HeadersGet(headers, name, field_name) ==
    IF name \notin DOMAIN headers THEN None
    ELSE IF field_name \notin DOMAIN headers[name].fields THEN None
         ELSE Some(headers[name].fields[field_name])

\* Headers::get_name
get_name(headers) == HeadersGet(headers, ContentDisposition, NameKey)

\* Headers::get_filename
get_filename(headers) == HeadersGet(headers, ContentDisposition, FilenameKey)

(***************************************************************************)
(* The record (the derive's generated target) and its sinks.               *)
(* form is the record description: a sequence of field descriptors         *)
(* [name, required, max_size].                                             *)
(***************************************************************************)
\* OnError
OnError == {"ContinueWithoutError", "ContinueWithError", "Skip"}

\* A call made by the parser on the dispatcher, a sink or the record.
Event(ev, part, name) ==
    [ev |-> ev, part |-> part, name |-> name, data |-> <<>>, limit |-> 0,
     names |-> <<>>, bound |-> FALSE, num |-> 0, frac |-> <<>>, flag |-> FALSE]

\* Number of the part being parsed: the parts are numbered by the calls of
\* the dispatcher.
PartOf(tr) == Cardinality({i \in DOMAIN tr : tr[i].ev = "dispatch"})

\* MultipartField::parser_required: the part name of a required field
parser_required(field) == IF field.required THEN Some(field.name) ELSE None

\* MultipartParserTargetGenerated::get_all_required of the record, a method
\* the record implements: the part names of its required fields, in order.
\* (The body the derive emits for it is generated_get_all_required below.)
get_all_required(fm) ==
    LET RECURSIVE req(_)
        req(fs) == IF fs = <<>> THEN <<>>
                   ELSE (IF parser_required(Head(fs)) # None
                         THEN <<Unwrap(parser_required(Head(fs)))>> ELSE <<>>)
                        \o req(Tail(fs))
    IN req(fm)

\* impl_multipart_parser_target_generated, the loop that fills `required`:
\* for every field with parser_required() = Some(_tokens) it appends
\* quote!(_tokens), the identifier _tokens itself
required_tokens(fm) ==
    LET RECURSIVE req(_)
        req(fs) == IF fs = <<>> THEN <<>>
                   ELSE (IF parser_required(Head(fs)) # None
                         THEN <<"_tokens">> ELSE <<>>)
                        \o req(Tail(fs))
    IN req(fm)

\* the generated get_all_required, vec![#required]: an empty vector when no
\* token was emitted; otherwise the body names _tokens, which is no value of
\* the generated code, and the record has no such method (ok = FALSE)
generated_get_all_required(fm) ==
    IF required_tokens(fm) = <<>> THEN [ok |-> TRUE, value |-> <<>>]
    ELSE [ok |-> FALSE, value |-> <<>>]

\* a sink of the record's own making (a ProcessContent implementation such
\* as the examples' FileWriter), unlimited
UserSink(name) ==
    [name |-> name, max_size |-> None, raw_data |-> <<>>, is_done |-> FALSE,
     kind |-> "user"]

\* MultipartParserTarget::content_parser: the default implementation returns
\* None (hooked is empty); a record that overrides it returns a sink of its
\* own for the names it chooses
content_parser(headers) ==
    Let(get_name(headers), LAMBDA name :
        IF name # None /\ Unwrap(name) \in hooked
        THEN Some(UserSink(Unwrap(name)))
        ELSE None)

\* DefaultProcessor::new(ProcessParams::new(name, max_size))
DefaultProcessorNew(name, max_size) ==
    [name |-> name, max_size |-> max_size, raw_data |-> <<>>, is_done |-> FALSE]

\* DefaultProcessor::open that keeps the buffer of a flushed sink
default_processor_open_kept(d) == [d EXCEPT !.is_done = FALSE]

\* DefaultProcessor::open
default_processor_open(d) ==
    IF d.is_done THEN [d EXCEPT !.raw_data = <<>>, !.is_done = FALSE] ELSE d

\* DefaultProcessor::flush
default_processor_flush(d) == [d EXCEPT !.is_done = TRUE]

\* the generated proxy struct of a field: new(target), with the kind of the
\* field the proxy converts to
ProxyNew(field) ==
    Let(DefaultProcessorNew(field.name, field.max_size), LAMBDA processor :
        [name |-> processor.name, max_size |-> processor.max_size,
         raw_data |-> processor.raw_data, is_done |-> processor.is_done,
         kind |-> field.kind])

\* A descriptor of kind "listed" is not a field of a derived record: it is a
\* name that a record implementing MultipartParserTargetGenerated by hand
\* returns from get_all_required and binds to no sink.
Field(descriptor) == descriptor.kind # "listed"

\* generated content_parser_generated: panics (ok = FALSE) when the headers
\* have no name, else the sink of the field bound to the name, else the
\* answer of content_parser
content_parser_generated(fm, headers) ==
    Let(get_name(headers), LAMBDA name :
        IF name = None THEN [ok |-> FALSE, sink |-> None]
        ELSE IF \E i \in DOMAIN fm : Field(fm[i]) /\ fm[i].name = Unwrap(name)
             THEN Let(CHOOSE j \in DOMAIN fm :
                          Field(fm[j]) /\ fm[j].name = Unwrap(name)
                          /\ \A k \in 1..(j - 1) :
                                 ~(Field(fm[k]) /\ fm[k].name = Unwrap(name)),
                      LAMBDA i :
                          [ok |-> TRUE,
                           sink |-> Some(ProxyNew(fm[i]))])
             ELSE [ok |-> TRUE, sink |-> content_parser(headers)])

\* remove_item that leaves the vector as it is
remove_item_kept(v, x) == v

\* Vec::remove_item: removes the first occurrence
remove_item(v, x) ==
    IF \A i \in DOMAIN v : v[i] # x THEN v
    ELSE LET i == CHOOSE j \in DOMAIN v : v[j] = x /\ \A k \in 1..(j - 1) : v[k] # x
         IN SubSeq(v, 1, i - 1) \o SubSeq(v, i + 1, Len(v))

(***************************************************************************)
(* The typed conversions of DefaultProcessor (process_content.rs). A       *)
(* conversion returns [ok, value]; a value is a record [data, num, frac,   *)
(* flag]: data for bytes and strings, num for integers, num and frac (the  *)
(* integer part and the digits after the point) for floats, flag for bool. *)
(***************************************************************************)
\* the byte 0xFF, which no UTF-8 string contains
XFF == "~"

I8Max == 127

Value == [data |-> <<>>, num |-> 0, frac |-> <<>>, flag |-> FALSE]

Failed == [ok |-> FALSE, value |-> Value]

DigitChars == <<"0", "1", "2", "3", "4", "5", "6", "7", "8", "9">>
Digit == {DigitChars[i] : i \in DOMAIN DigitChars}
DigitValue(c) == (CHOOSE i \in DOMAIN DigitChars : DigitChars[i] = c) - 1

\* the number a string of decimal digits denotes
RECURSIVE Decimal(_)
Decimal(s) ==
    IF s = <<>> THEN 0
    ELSE 10 * Decimal(SubSeq(s, 1, Len(s) - 1)) + DigitValue(s[Len(s)])

AllDigits(s) == \A i \in DOMAIN s : s[i] \in Digit

\* String::from_utf8
from_utf8(raw_data) ==
    IF \E i \in DOMAIN raw_data : raw_data[i] = XFF
    THEN Failed
    ELSE [ok |-> TRUE, value |-> [Value EXCEPT !.data = raw_data]]

\* FromUtf8Error::to_string: the text starts with "invalid utf-8"
FromUtf8ErrorText == <<"i", "n", "v", "a", "l", "i", "d", " ", "u", "t", "f", "-", "8">>

\* str::parse::<i8>
parse_i8(s) ==
    Let(IF s # <<>> /\ s[1] \in {"+", "-"} THEN Tail(s) ELSE s, LAMBDA digits :
        IF digits = <<>> \/ ~AllDigits(digits) THEN Failed
        ELSE Let(IF s[1] = "-" THEN 0 - Decimal(digits) ELSE Decimal(digits),
                 LAMBDA n :
                     IF n > I8Max \/ n < 0 - I8Max - 1 THEN Failed
                     ELSE [ok |-> TRUE, value |-> [Value EXCEPT !.num = n]]))

\* bool::from_str
parse_bool(s) ==
    IF s = <<"t", "r", "u", "e">>
    THEN [ok |-> TRUE, value |-> [Value EXCEPT !.flag = TRUE]]
    ELSE IF s = <<"f", "a", "l", "s", "e">>
         THEN [ok |-> TRUE, value |-> [Value EXCEPT !.flag = FALSE]]
         ELSE Failed

\* the digits of a fraction without its trailing zeros
RECURSIVE StripZeros(_)
StripZeros(s) ==
    IF s # <<>> /\ s[Len(s)] = "0" THEN StripZeros(SubSeq(s, 1, Len(s) - 1)) ELSE s

\* str::parse::<f64> on strings of signs, digits and points: an optional
\* sign, digits with at most one point, at least one digit
parse_f64(s) ==
    Let(IF s # <<>> /\ s[1] \in {"+", "-"} THEN Tail(s) ELSE s, LAMBDA body :
    Let(Split(body, "."), LAMBDA pieces :
        IF Len(pieces) > 2 THEN Failed
        ELSE Let(pieces[1], LAMBDA whole :
             Let(IF Len(pieces) = 2 THEN pieces[2] ELSE <<>>, LAMBDA fraction :
                 IF ~AllDigits(whole) \/ ~AllDigits(fraction)
                    \/ (whole = <<>> /\ fraction = <<>>)
                 THEN Failed
                 ELSE [ok |-> TRUE,
                       value |-> [Value EXCEPT
                                    !.num = IF s[1] = "-" THEN 0 - Decimal(whole)
                                            ELSE Decimal(whole),
                                    !.frac = StripZeros(fraction)]]))))

\* The kinds of field the model binds
Kinds == {"bytes", "string", "bool", "i8", "f64"}

\* TryFrom<&DefaultProcessor> for Vec<u8>, String, bool, i8 and f64: the
\* parsed kinds parse the text of the FromUtf8Error when raw_data is no string
try_from(kind, raw_data) ==
    Let(IF from_utf8(raw_data).ok THEN raw_data ELSE FromUtf8ErrorText, LAMBDA s :
        CASE kind = "bytes" -> [ok |-> TRUE, value |-> [Value EXCEPT !.data = raw_data]]
          [] kind = "string" -> from_utf8(raw_data)
          [] kind = "bool" -> parse_bool(s)
          [] kind = "i8" -> parse_i8(s)
          [] kind = "f64" -> parse_f64(s))

\* a translation that yields NoError for every kind
to_multipart_parse_error_infallible(kind) == "error_NoError"

\* ToMultipartParseError for FromUtf8Error, ParseBoolError, ParseIntError and
\* ParseFloatError: the variant the error of a kind is translated to
to_multipart_parse_error(kind) ==
    CASE kind = "string" -> "error_ParseStrError"
      [] kind = "bool" -> "error_ParseBoolError"
      [] kind = "i8" -> "error_ParseIntError"
      [] kind = "f64" -> "error_ParseFloatError"
      [] kind = "bytes" -> "error_NoError"

(***************************************************************************)
(* MultipartParser (multipart_parser.rs). The operators work on a machine  *)
(* m = [p: the parser's fields, trace: the calls made so far, out: "ok",   *)
(* "io_error" (the call returns Err) or "panic"].                          *)
(***************************************************************************)
Boundary == <<"X">>

\* BoundaryBuilder for Vec<u8>
append_crlf(v) == v \o <<CR, LF>>
\* a prelude of one dash
append_prelude_single(v) == v \o <<DASH>>

append_prelude(v) == v \o <<DASH, DASH>>
append_boundary(v, boundary) == v \o boundary

\* MultipartParser::new_from_vec
new_from_vec(boundary, fm) ==
    [boundary_first |-> append_crlf(append_boundary(append_prelude(<<>>), boundary)),
     boundary_middle |-> append_boundary(append_prelude(append_crlf(<<>>)), boundary),
     divider |-> append_crlf(<<>>),
     epilogue |-> append_prelude(<<>>),
     empty_string |-> append_crlf(<<>>),
     state |-> "BoundaryFirst",
     headers |-> None,
     headers_builder |-> [tmp |-> <<>>, lines |-> <<>>],
     process_content |-> None,
     compare_pos |-> 0,
     content_start |-> 0,
     content_end |-> 0,
     content_size |-> 0,
     content_size_max |-> None,
     buf_pos |-> 0,
     unprocessed |-> get_all_required(fm),
     on_error |-> "ContinueWithError",
     error_fired |-> FALSE]

\* MultipartParser::new_from_str: boundary.as_bytes().to_vec()
new_from_str(boundary, fm) == new_from_vec(boundary, fm)

Panicked(m) == [m EXCEPT !.out = "panic"]

\* MultipartParser::to_header
to_header(m) ==
    [m EXCEPT !.p.compare_pos = 0, !.p.headers = None, !.p.state = "Header"]

\* MultipartParser::to_header_continue
to_header_continue(m) ==
    [m EXCEPT !.p.compare_pos = 0, !.p.state = "Header"]

\* HeadersBuilder::write
headers_builder_write(m, c) ==
    [m EXCEPT !.p.headers_builder.tmp = Append(@, c)]

\* HeadersBuilder::flush
headers_builder_flush(hb) ==
    [tmp |-> <<>>, lines |-> Append(hb.lines, hb.tmp)]

\* MultipartParser::to_post_header
to_post_header(m) ==
    [m EXCEPT !.p.compare_pos = 0,
              !.p.headers_builder = headers_builder_flush(@),
              !.p.state = "PostHeader"]

\* MultipartParser::processor_open
processor_open(m) ==
    IF m.p.process_content # None /\ m.p.headers # None
    THEN [m EXCEPT !.trace = Append(@, Event("open", PartOf(m.trace),
                                             Unwrap(m.p.process_content).name)),
                   !.p.process_content = Some(default_processor_open(Unwrap(@)))]
    ELSE m

\* an entry into Content that keeps the size-limit state of the last part
to_content_reset_kept(m) == [m EXCEPT !.p.content_start = m.p.buf_pos]

\* MultipartParser::to_content, its first four assignments
to_content_reset(m) ==
    [m EXCEPT !.p.content_start = m.p.buf_pos,
              !.p.content_size = 0,
              !.p.on_error = "ContinueWithError",
              !.p.error_fired = FALSE]

\* MultipartParser::to_content
to_content(m) ==
    Let(to_content_reset(m), LAMBDA m1 :
    \* HeadersBuilder::build
    Let(HeadersNew(m.p.headers_builder.lines), LAMBDA built :
    Let([m1 EXCEPT !.p.headers_builder = [tmp |-> <<>>, lines |-> <<>>]], LAMBDA m2 :
    Let(content_parser_generated(form, built.headers), LAMBDA sel :
    Let(get_name(built.headers), LAMBDA name :
        IF ~built.ok THEN Panicked(m1)
        ELSE IF ~sel.ok THEN Panicked(m2)
        ELSE Let([m2 EXCEPT
                    !.trace = Append(@, [Event("dispatch", PartOf(m.trace) + 1,
                                               Unwrap(name))
                                           EXCEPT !.bound = sel.sink # None]),
                    !.p.process_content = sel.sink,
                    !.p.content_size_max =
                        IF sel.sink # None THEN Unwrap(sel.sink).max_size ELSE None,
                    !.p.unprocessed =
                        IF name # None THEN remove_item(@, Unwrap(name)) ELSE @,
                    !.p.headers = Some(built.headers)], LAMBDA m3 :
                 [processor_open(m3) EXCEPT !.p.compare_pos = 0,
                                            !.p.state = "Content"]))))))

\* MultipartParser::to_post_boundary
to_post_boundary(m) ==
    [m EXCEPT !.p.content_start = 0, !.p.compare_pos = 0, !.p.state = "PostBoundary"]

\* a to_finished that makes the parser await a first boundary again
to_finished_restarted(m) == [m EXCEPT !.p.state = "BoundaryFirst"]

\* MultipartParser::to_finished
to_finished(m) == [m EXCEPT !.p.state = "Finished"]

\* MultipartParser::compare_at, with 0-based pos; ok = FALSE when vec[pos]
\* is out of bounds
compare_at(c, boundary, at) ==
    IF at >= Len(boundary)
    THEN [ok |-> FALSE, sym_equal |-> FALSE, boundary_equal |-> FALSE]
    ELSE IF c = boundary[at + 1]
         THEN [ok |-> TRUE, sym_equal |-> TRUE, boundary_equal |-> at + 1 = Len(boundary)]
         ELSE [ok |-> TRUE, sym_equal |-> FALSE, boundary_equal |-> FALSE]

\* MultipartParser::compare
compare(m, c, boundary) == compare_at(c, boundary, m.p.compare_pos)

\* a process_boundary_first that passes over the bytes that do not match
process_boundary_first_lenient(m, c) ==
    LET r == compare(m, c, m.p.boundary_first)
    IN IF r.ok /\ r.boundary_equal THEN to_header(m)
       ELSE IF r.ok /\ r.sym_equal THEN [m EXCEPT !.p.compare_pos = @ + 1]
       ELSE m

\* MultipartParser::process_boundary_first
process_boundary_first(m, c) ==
    LET r == compare(m, c, m.p.boundary_first)
    IN IF ~r.ok THEN Panicked(m)
       ELSE IF r.boundary_equal THEN to_header(m)
       ELSE IF ~r.sym_equal THEN Panicked(m)
       ELSE [m EXCEPT !.p.compare_pos = @ + 1]

\* MultipartParser::process_header; the loop replays empty_string[1..compare_pos_last)
RECURSIVE process_header(_, _)
RECURSIVE process_header_replay(_, _, _)
process_header_replay(m, i, compare_pos_last) ==
    IF i >= compare_pos_last \/ m.out # "ok" THEN m
    ELSE process_header_replay(process_header(m, m.p.empty_string[i + 1]),
                               i + 1, compare_pos_last)

process_header(m, c) ==
    LET r == compare(m, c, m.p.empty_string)
    IN IF ~r.ok THEN Panicked(m)
       ELSE IF r.boundary_equal THEN to_post_header(m)
       ELSE IF r.sym_equal THEN [m EXCEPT !.p.compare_pos = @ + 1]
       ELSE IF m.p.compare_pos > 0
            THEN process_header_replay(
                     [headers_builder_write(m, m.p.empty_string[1])
                        EXCEPT !.p.compare_pos = 0],
                     1, m.p.compare_pos)
            ELSE headers_builder_write(m, c)

\* MultipartParser::process_post_header
process_post_header(m, c) ==
    LET r == compare(m, c, m.p.empty_string)
    IN IF ~r.ok THEN Panicked(m)
       ELSE IF r.boundary_equal THEN to_content(m)
       ELSE IF r.sym_equal THEN [m EXCEPT !.p.compare_pos = @ + 1]
       ELSE Let(process_header_replay(
                    [headers_builder_write(m, m.p.empty_string[1])
                       EXCEPT !.p.compare_pos = 0],
                    1, m.p.compare_pos),
                LAMBDA m1 : IF m1.out # "ok" THEN m1 ELSE to_header_continue(m1))

\* an answer of the handler that is never returned to the caller
error_swallowed(answer) == FALSE

\* the answer of target.error is Err(e): processor_write_from_to returns it
error_returned(answer) == answer = "IoError"

\* Vec::extend that replaces the vector by the new data
extend_replaced(raw_data, data) == data

\* DefaultProcessor::write: raw_data.extend(data)
extend(raw_data, data) == raw_data \o data

\* DefaultProcessor::write: panics (ok = FALSE) after flush
default_processor_write(d, data) ==
    IF d.is_done THEN [ok |-> FALSE, d |-> d]
    ELSE [ok |-> TRUE, d |-> [d EXCEPT !.raw_data = extend(@, data)]]

\* MultipartParser::processor_write_from_to, with 0-based from and to:
\* buf[from..to] panics when from > to or to > buf.len()
processor_write_from_to(m, buf, from, to) ==
    IF m.p.on_error = "Skip" THEN m
    ELSE IF m.p.process_content = None THEN m
    ELSE IF m.p.content_size_max # None /\ to < from THEN Panicked(m)
    ELSE
      LET process_content == Unwrap(m.p.process_content)
          limited == m.p.content_size_max # None
          max_size == Unwrap(m.p.content_size_max)
          fires == limited /\ m.p.content_size + (to - from) > max_size
                   /\ m.p.on_error = "ContinueWithError"
      IN
      Let(IF limited THEN [m EXCEPT !.p.content_size = @ + (to - from)] ELSE m,
          LAMBDA m1 :
      \* target.error(SizeLimit(name, max_size))
      Let(IF fires
          THEN [m1 EXCEPT !.trace =
                    Append(@, [Event("error_SizeLimit", PartOf(m.trace),
                                     process_content.name)
                                 EXCEPT !.limit = max_size])]
          ELSE m1, LAMBDA m2 :
      Let(IF fires
          THEN [m2 EXCEPT !.p.on_error = reply, !.p.content_size_max = None]
          ELSE m2, LAMBDA m3 :
          IF fires /\ error_returned(reply) THEN [m2 EXCEPT !.out = "io_error"]
          ELSE IF m3.p.headers = None THEN m3
          ELSE IF from > to \/ to > Len(buf) THEN Panicked(m3)
          \* process_content.write(headers, buf[from..to])
          ELSE Let(default_processor_write(process_content, SubSeq(buf, from + 1, to)),
                   LAMBDA written :
                   IF ~written.ok THEN Panicked(m3)
                   ELSE [m3 EXCEPT !.trace =
                            Append(@, [Event("write", PartOf(m.trace),
                                             process_content.name)
                                         EXCEPT !.data = SubSeq(buf, from + 1, to)]),
                                   !.p.process_content = Some(written.d)]))))

\* MultipartParser::processor_write
processor_write(m, buf) ==
    processor_write_from_to(m, buf, m.p.content_start, m.p.content_end)

\* MultipartParser::processor_write_sym
processor_write_sym(m, c) == processor_write_from_to(m, <<c>>, 0, 1)

\* the generated flush of a proxy, after DefaultProcessor::flush: the calls
\* it makes on the record, the assignment of the converted value to the field
\* ("store") or, for the parsed kinds, the call of the error handler, whose
\* answer is dropped
generated_flush(sink, part) ==
    Let(try_from(sink.kind, sink.raw_data), LAMBDA result :
        IF result.ok
        THEN <<[Event("store", part, sink.name) EXCEPT
                  !.data = result.value.data, !.num = result.value.num,
                  !.frac = result.value.frac, !.flag = result.value.flag]>>
        ELSE IF sink.kind = "bytes" THEN <<>>
        ELSE <<[Event(to_multipart_parse_error(sink.kind), part, sink.name)
                  EXCEPT !.data = sink.raw_data]>>)

\* a processor_flush that makes no call
processor_flush_skipped(m) == m

\* MultipartParser::processor_flush; the sink's flush is the generated
\* flush, which begins with DefaultProcessor::flush
processor_flush(m) ==
    IF m.p.process_content # None /\ m.p.headers # None
    THEN Let(Unwrap(m.p.process_content), LAMBDA sink :
             [m EXCEPT !.trace = Append(@, Event("flush", PartOf(m.trace), sink.name))
                                     \o generated_flush(sink, PartOf(m.trace)),
                       !.p.process_content = Some(default_processor_flush(sink))])
    ELSE m

\* MultipartParser::flow_content, the while loop: the position it stops at
RECURSIVE flow_content_pos(_, _, _)
flow_content_pos(vec, at, to) ==
    IF at >= to THEN at
    ELSE IF compare_at(vec[at + 1], vec, at).sym_equal THEN at
         ELSE flow_content_pos(vec, at + 1, to)

\* MultipartParser::flow_content: the machine and the returned position
flow_content(m, from, to) ==
    Let(m.p.boundary_middle, LAMBDA vec :
    Let(flow_content_pos(vec, from, to), LAMBDA at :
        [m |-> IF at < to /\ at > from
               THEN processor_write_from_to(m, vec, from, at)
               ELSE m,
         pos |-> to - at]))

\* a content_end that takes in the byte being processed
content_end_past(m) == m.p.buf_pos + 1

\* process_content, at the first byte of a candidate: content_end = buf_pos
content_end_at(m) == m.p.buf_pos

\* MultipartParser::process_content
process_content(m, c, buf) ==
    LET r == compare(m, c, m.p.boundary_middle)
    IN IF ~r.ok THEN Panicked(m)
       ELSE IF r.boundary_equal THEN to_post_boundary(processor_flush(m))
       ELSE IF r.sym_equal
            THEN IF m.p.compare_pos = 0
                 THEN Let(processor_write([m EXCEPT !.p.content_end = content_end_at(m)],
                                          buf),
                          LAMBDA m1 : IF m1.out # "ok" THEN m1
                                      ELSE [m1 EXCEPT !.p.compare_pos = @ + 1])
                 ELSE [m EXCEPT !.p.compare_pos = @ + 1]
       ELSE IF m.p.compare_pos > 0
            THEN Let(processor_write_sym(m, m.p.boundary_middle[1]), LAMBDA m1 :
                     IF m1.out # "ok" THEN m1
                     ELSE IF m1.p.compare_pos > 1
                          THEN Let(flow_content(m1, 1, m1.p.compare_pos), LAMBDA f :
                                   IF f.m.out # "ok" THEN f.m
                                   ELSE [f.m EXCEPT !.p.compare_pos = f.pos])
                          ELSE [m1 EXCEPT !.p.compare_pos = 0])
       ELSE m

\* MultipartParser::process_post_boundary
process_post_boundary(m, c) ==
    LET d == compare(m, c, m.p.divider)
        e == compare(m, c, m.p.epilogue)
        m1 == IF d.boundary_equal THEN to_header(m) ELSE m
        m2 == IF e.boundary_equal THEN to_finished(m1) ELSE m1
    IN IF ~d.ok \/ ~e.ok THEN Panicked(m)
       ELSE IF ~d.boundary_equal /\ ~e.boundary_equal
            THEN [m2 EXCEPT !.p.compare_pos = @ + 1]
            ELSE m2

\* a Finished arm that goes on counting matched bytes
process_finished_counting(m, c) == [m EXCEPT !.p.compare_pos = @ + 1]

\* Write::write, the arm MultipartParserState::Finished => ()
process_finished(m, c) == m

\* Write::write, the body of the loop for one byte
write_byte(m, c, buf) ==
    CASE m.p.state = "BoundaryFirst" -> process_boundary_first(m, c)
      [] m.p.state = "Header" -> process_header(m, c)
      [] m.p.state = "PostHeader" -> process_post_header(m, c)
      [] m.p.state = "Content" -> process_content(m, c, buf)
      [] m.p.state = "PostBoundary" -> process_post_boundary(m, c)
      [] m.p.state = "Finished" -> process_finished(m, c)

\* Write::write, the loop for the 0-based positions lo..hi-1 of buf, run as
\* the positions of the first half and then those of the second half; the
\* loop is left when a call returns Err or panics
RECURSIVE write_loop(_, _, _, _)
write_loop(m, buf, lo, hi) ==
    IF lo >= hi \/ m.out # "ok" THEN m
    ELSE IF hi = lo + 1
         THEN write_byte([m EXCEPT !.p.buf_pos = lo], buf[lo + 1], buf)
         ELSE Let((lo + hi) \div 2, LAMBDA mid :
                  Let(write_loop(m, buf, lo, mid), LAMBDA half :
                      write_loop(half, buf, mid, hi)))

\* Write::write for MultipartParser
write(m, buf) ==
    Let([m EXCEPT !.p.content_start = 0, !.out = "ok"], LAMBDA m0 :
        Let(buf, LAMBDA b : write_loop(m0, b, 0, Len(b))))

\* an I/O error answered by the handler that flush would return
required_missing_kept(answer) == answer = "IoError"

\* Write::flush, the match on the handler's answer to RequiredMissing:
\* Ok(_) => (), Err(_) => (), so that no answer makes flush return an error
required_missing_returned(answer) == FALSE

\* a flush that first flushes the sink of the part being parsed
flush_draining(m) ==
    [m EXCEPT !.trace = Append(Append(@, Event("flush", PartOf(m.trace), <<>>)),
                               Event("finish", PartOf(m.trace), <<>>)),
              !.out = "ok"]

\* Write::flush for MultipartParser
flush(m) ==
    LET asked == m.p.unprocessed # <<>>
        m1 == IF asked
              THEN [m EXCEPT !.trace =
                        Append(@, [Event("error_RequiredMissing", PartOf(m.trace), <<>>)
                                     EXCEPT !.names = m.p.unprocessed])]
              ELSE m
    IN IF asked /\ required_missing_returned(reply)
       THEN [m1 EXCEPT !.out = "io_error"]
       ELSE [m1 EXCEPT !.trace = Append(@, Event("finish", PartOf(m.trace), <<>>)),
                       !.out = "ok"]

(***************************************************************************)
(* The streams and the records the parser is run on.                       *)
(***************************************************************************)
RECURSIVE SeqsUpTo(_, _)
SeqsUpTo(S, n) ==
    IF n = 0 THEN {<<>>}
    ELSE LET shorter == SeqsUpTo(S, n - 1)
         IN shorter \cup {Append(q, x) : q \in shorter, x \in S}

\* a body byte is CR, a dash or a plain byte; LF is special only after a CR
BodyBytes == {"a", CR, DASH}

Bodies == SeqsUpTo(BodyBytes, MaxBody)
              \cup {<<LF>>, <<CR, LF>>, <<"a", CR, "b">>, <<"a", "b", "c">>,
                    <<CR, LF, "a">>, <<CR, LF, DASH, "a">>}

ShortBodies == {<<>>, <<"a">>, <<"a", CR>>}

NameS == <<"s">>
NameQ == <<"q">>
NameU == <<"u">>

\* Content-Disposition: form-data; name="<name>"
DispositionLine(name) ==
    ContentDisposition
        \o <<":", " ", "f", "o", "r", "m", "-", "d", "a", "t", "a", ";", " ">>
        \o NameKey \o <<"=", "\"">> \o name \o <<"\"">>

\* Content-Type: text/plain
TypeLine ==
    <<"C","o","n","t","e","n","t","-","T","y","p","e",":"," ",
      "t","e","x","t","/","p","l","a","i","n">>

First == <<DASH, DASH>> \o Boundary \o <<CR, LF>>
Middle == <<CR, LF, DASH, DASH>> \o Boundary

\* the header lines of a part, each ended by CR LF, and the blank line
RECURSIVE HeaderBlock(_)
HeaderBlock(lines) ==
    IF lines = <<>> THEN <<CR, LF>>
    ELSE Head(lines) \o <<CR, LF>> \o HeaderBlock(Tail(lines))

PartBytes(part) == HeaderBlock(part.lines) \o part.body

\* RFC 7578 framing of a non-empty sequence of parts
RECURSIVE PartsBytes(_)
PartsBytes(ps) ==
    IF Len(ps) = 1 THEN PartBytes(ps[1]) \o Middle \o <<DASH, DASH>>
    ELSE PartBytes(ps[1]) \o Middle \o <<CR, LF>> \o PartsBytes(Tail(ps))

StreamBytes(ps) == First \o PartsBytes(ps)

Part(name, body) == [name |-> name, lines |-> <<DispositionLine(name)>>, body |-> body]

WellFormedParts ==
    {<<Part(NameS, b)>> : b \in Bodies}
        \cup {<<Part(n1, b1), Part(n2, b2)>> :
                 n1 \in {NameS, NameU}, n2 \in {NameS, NameQ},
                 b1 \in ShortBodies, b2 \in {<<"a">>}}
        \cup {<<[name |-> NameS, lines |-> <<DispositionLine(NameS), TypeLine>>,
                 body |-> <<"a">>]>>}

\* streams that are not well-formed
MalformedStreams ==
    {<<DASH, "a">>,
     <<"a", DASH>>,
     First \o HeaderBlock(<<DispositionLine(NameS)>>) \o <<"a">> \o Middle \o <<"a", "b", "c">>,
     First \o HeaderBlock(<<DispositionLine(NameS)>>) \o <<"a">> \o Middle \o <<"a", LF, "b">>,
     First \o HeaderBlock(<<<<"a", "b">>>>) \o <<"a">> \o Middle \o <<DASH, DASH>>,
     First \o HeaderBlock(<<TypeLine>>) \o <<"a">> \o Middle \o <<DASH, DASH>>,
     First \o HeaderBlock(<<DispositionLine(NameS) \o <<CR, "a">>>>) \o <<"a">>
           \o Middle \o <<DASH, DASH>>}

Limits == {None} \cup {Some(n) : n \in 1..MaxLimit}

Replies == OnError \cup {"IoError"}

\* the record: field s with the given attributes, field q required and
\* unlimited, both of them Vec<u8>
FormOf(required, max_size) ==
    <<[name |-> NameS, required |-> required, max_size |-> max_size,
       kind |-> "bytes"],
      [name |-> NameQ, required |-> TRUE, max_size |-> None, kind |-> "bytes"]>>

Forms == {FormOf(TRUE, l) : l \in Limits} \cup {FormOf(FALSE, None)}

Machine == [p |-> parser, trace |-> trace, out |-> outcome]

\* the record keeps the default content_parser and no library object is
\* used apart from the parser
\* the parser is made by new_from_str(Boundary, form)
FromBoundary ==
    /\ token = Boundary
    /\ maker = "str"

NoneApart ==
    /\ hooked = {}
    /\ hlines = <<>>
    /\ hbuilt = None
    /\ chosen = None
    /\ default_processor = None

Init ==
    /\ parts \in WellFormedParts \cup {<<>>}
    /\ input \in IF parts = <<>> THEN MalformedStreams ELSE {StreamBytes(parts)}
    /\ pos = 0
    /\ form \in Forms
    /\ reply \in Replies
    /\ form[1].max_size = None => reply = "ContinueWithError"
    /\ parser = new_from_str(Boundary, form)
    /\ trace = <<>>
    /\ outcome = "ok"
    /\ flushes = 0
    /\ late = 0
    /\ single = FALSE
    /\ NoneApart
    /\ FromBoundary

\* the chunk lengths the caller uses: short chunks, or the whole stream at once
ChunkLens == (1..MaxChunk) \cup {Len(input)}

\* the caller passes the next n bytes of the stream to write
Write(n) ==
    /\ outcome # "panic"
    /\ n >= 1 /\ pos + n <= Len(input)
    /\ flushes > 0 => late < MaxLate
    /\ LET m == write(Machine, SubSeq(input, pos + 1, pos + n))
       IN /\ parser' = m.p
          /\ trace' = m.trace
          /\ outcome' = m.out
    /\ pos' = pos + n
    /\ late' = IF flushes > 0 THEN late + 1 ELSE late
    /\ single' = (pos = 0 /\ n = Len(input))
    /\ UNCHANGED <<input, parts, form, reply, flushes>>
    /\ UNCHANGED apart
    /\ UNCHANGED given

\* the caller calls flush
Flush ==
    /\ outcome # "panic"
    /\ flushes < MaxFlush
    /\ LET m == flush(Machine)
       IN /\ parser' = m.p
          /\ trace' = m.trace
          /\ outcome' = m.out
    /\ flushes' = flushes + 1
    /\ UNCHANGED <<input, pos, parts, form, reply, late, single>>
    /\ UNCHANGED apart
    /\ UNCHANGED given

Next ==
    \/ \E n \in ChunkLens : Write(n)
    \/ Flush

Spec == Init /\ [][Next]_vars

(***************************************************************************)
(* The parser run on a record with typed fields, the stream passed in      *)
(* chunks of any lengths up to MaxWide.                                    *)
(***************************************************************************)
TypedBodies ==
    {<<>>, <<"1">>, <<DASH, "1">>, <<"a">>, <<"1", ".">>, <<"9", "9", "9">>,
     <<"t", "r", "u", "e">>, <<XFF>>, <<"1", CR, LF, "1">>}

TypedParts ==
    {<<Part(NameS, b)>> : b \in TypedBodies}
        \cup {<<Part(NameS, <<"1">>), Part(NameS, <<"a">>)>>}
        \cup {<<[name |-> NameS, lines |-> <<DispositionLine(NameS), TypeLine>>,
                 body |-> <<"1">>]>>}

\* the record: field s of any kind, field q required, both unlimited
FormsTyped ==
    {<<[name |-> NameS, required |-> FALSE, max_size |-> None, kind |-> k],
       [name |-> NameQ, required |-> TRUE, max_size |-> None, kind |-> "bytes"]>> :
        k \in Kinds}

\* bytes that follow the closing delimiter
Trailer == <<CR, LF>> \o First

InitWide ==
    /\ parts \in TypedParts
    /\ input \in {StreamBytes(parts)}
                    \cup (IF parts = <<Part(NameS, <<"1">>)>>
                          THEN {StreamBytes(parts) \o Trailer} ELSE {})
    /\ pos = 0
    /\ form \in FormsTyped
    /\ reply = "ContinueWithError"
    /\ parser = new_from_str(Boundary, form)
    /\ trace = <<>>
    /\ outcome = "ok"
    /\ flushes = 0
    /\ late = 0
    /\ single = FALSE
    /\ NoneApart
    /\ FromBoundary

WideLens == 1..MaxWide

NextWide ==
    \/ \E n \in WideLens : Write(n)
    \/ Flush

SpecWide == InitWide /\ [][NextWide]_vars

(***************************************************************************)
(* Vocabulary of the properties.                                           *)
(***************************************************************************)
WellFormed == parts # <<>>

\* the whole stream has been passed to write and every call returned Ok
Consumed == pos = Len(input) /\ outcome = "ok" /\ late = 0

\* the field a part of the stream is bound to
HasSink(k) == \E i \in DOMAIN form : form[i].name = parts[k].name
FieldOf(k) == form[CHOOSE i \in DOMAIN form : form[i].name = parts[k].name]

\* the calls made on the sink of part k, in order
SinkCalls(tr, k) ==
    SelectSeq(tr, LAMBDA e : e.part = k /\ e.ev \in {"open", "write", "flush"})

\* the concatenation of the payloads written to the sink of part k
RECURSIVE Payloads(_)
Payloads(es) ==
    IF es = <<>> THEN <<>>
    ELSE (IF Head(es).ev = "write" THEN Head(es).data ELSE <<>>) \o Payloads(Tail(es))

Delivered(tr, k) == Payloads(SinkCalls(tr, k))

Count(tr, ev, k) == Cardinality({i \in DOMAIN tr : tr[i].ev = ev /\ tr[i].part = k})

\* number of bytes of the stream up to the end of the delimiter closing part k
RECURSIVE DelimEnd(_)
DelimEnd(k) ==
    (IF k = 1 THEN Len(First) ELSE DelimEnd(k - 1) + Len(<<CR, LF>>))
        + Len(PartBytes(parts[k])) + Len(Middle)

\* s occurs in t as a contiguous substring
Contains(t, s) ==
    \E i \in 0..(Len(t) - Len(s)) : SubSeq(t, i + 1, i + Len(s)) = s

\* the parser as constructed, before any call
Fresh == [p |-> new_from_str(Boundary, form), trace |-> <<>>, out |-> "ok"]

(***************************************************************************)
(* C1: a well-formed stream passed to write in a single call delivers to   *)
(* the sink of every bound part exactly the part's body (here for sinks    *)
(* without a size limit, whose writes are never cut short).                *)
(***************************************************************************)
C1_SingleCallDeliversBody ==
    (WellFormed /\ Consumed /\ single)
        => \A k \in DOMAIN parts :
               (HasSink(k) /\ FieldOf(k).max_size = None)
                   => Delivered(trace, k) = parts[k].body

(***************************************************************************)
(* C2: whatever the split of a well-formed stream into chunks, the calls   *)
(* made on each part's sink (open and flush, and the concatenation of the  *)
(* written payloads) are those of the single-call run.                     *)
(***************************************************************************)
PerPart(tr) ==
    [k \in 1..PartOf(tr) |->
        [calls |-> SelectSeq(SinkCalls(tr, k), LAMBDA e : e.ev # "write"),
         data |-> Delivered(tr, k)]]

C2_ChunkingEquivalent ==
    (WellFormed /\ Consumed /\ reply # "IoError")
        => PerPart(trace) = PerPart(write(Fresh, input).trace)

(***************************************************************************)
(* C3: on the sink of every bound part the parser calls open once, then    *)
(* write any number of times, then flush once, and the flush has been      *)
(* made once the part's closing delimiter has been passed to write.        *)
(***************************************************************************)
\* open, then writes, then at most one flush
Lifecycle(es) ==
    \/ es = <<>>
    \/ /\ es[1].ev = "open"
       /\ \A i \in 2..Len(es) :
              \/ es[i].ev = "write"
              \/ es[i].ev = "flush" /\ i = Len(es)

Flushed(k) == pos >= DelimEnd(k) => Count(trace, "flush", k) = 1

C3_SinkLifecycle ==
    (WellFormed /\ outcome = "ok" /\ late = 0)
        => \A k \in DOMAIN parts :
               HasSink(k) => Lifecycle(SinkCalls(trace, k)) /\ Flushed(k)

(***************************************************************************)
(* C4: no payload passed to a sink's write contains the delimiter          *)
(* boundary_middle.                                                        *)
(***************************************************************************)
C4_NoDelimiterInPayload ==
    \A i \in DOMAIN trace :
        trace[i].ev = "write" => ~Contains(trace[i].data, parser.boundary_middle)

(***************************************************************************)
(* C5: each flush() of the parser reports RequiredMissing exactly once,    *)
(* with exactly the required names no sink was opened for, when there is   *)
(* such a name, and makes no such report when there is none.               *)
(***************************************************************************)
Range(q) == {q[i] : i \in DOMAIN q}

\* the required names for which no open was made before the i-th call
MissingAt(i) ==
    {n \in Range(get_all_required(form)) :
        \A j \in 1..(i - 1) : ~(trace[j].ev = "open" /\ trace[j].name = n)}

C6_NoPanic ==
    (Len(input) >= Len(First) /\ SubSeq(input, 1, Len(First)) = First)
        => outcome # "panic"

(***************************************************************************)
(* C7: when the handler answers SizeLimit with Skip, the sink of a part    *)
(* with max_size = m receives at most m bytes during the part.             *)
(***************************************************************************)
C7_SkipBoundsDelivered ==
    (WellFormed /\ reply = "Skip")
        => \A k \in DOMAIN parts :
               (HasSink(k) /\ FieldOf(k).max_size # None)
                   => Len(Delivered(trace, k)) <= Unwrap(FieldOf(k).max_size)

(***************************************************************************)
(* C8: after the handler answered SizeLimit with Skip, no write is made on *)
(* the part's sink any more, and the sink is still flushed once when the   *)
(* part's closing delimiter has been passed to write.                      *)
(***************************************************************************)
C8_NoWriteAfterSkip ==
    (WellFormed /\ reply = "Skip" /\ outcome = "ok" /\ late = 0)
        => \A i \in DOMAIN trace :
               trace[i].ev = "error_SizeLimit"
                   => /\ \A j \in (i + 1)..Len(trace) :
                             ~(trace[j].ev = "write" /\ trace[j].part = trace[i].part)
                      /\ Flushed(trace[i].part)

(***************************************************************************)
(* C9: when the handler answers SizeLimit with ContinueWithoutError, a     *)
(* part with max_size = m and a body longer than m makes one call of the   *)
(* handler and its sink receives the whole body.                           *)
(***************************************************************************)
C9_ContinueSilentDeliversAll ==
    (WellFormed /\ Consumed /\ reply = "ContinueWithoutError")
        => \A k \in DOMAIN parts :
               (/\ HasSink(k)
                /\ FieldOf(k).max_size # None
                /\ Len(parts[k].body) > Unwrap(FieldOf(k).max_size))
                   => /\ Count(trace, "error_SizeLimit", k) = 1
                      /\ Delivered(trace, k) = parts[k].body

(***************************************************************************)
(* C10: for a part with max_size = m the handler is called with            *)
(* SizeLimit(name, m) exactly when the body has more than m bytes.         *)
(***************************************************************************)
C10_SizeLimitIffExceeded ==
    (WellFormed /\ Consumed)
        => \A k \in DOMAIN parts :
               (HasSink(k) /\ FieldOf(k).max_size # None)
                   => ((\E i \in DOMAIN trace :
                            /\ trace[i].ev = "error_SizeLimit"
                            /\ trace[i].part = k
                            /\ trace[i].name = parts[k].name
                            /\ trace[i].limit = Unwrap(FieldOf(k).max_size))
                       <=> Len(parts[k].body) > Unwrap(FieldOf(k).max_size))

(***************************************************************************)
(* C11: when the handler answers SizeLimit with an I/O error, the write    *)
(* call in progress returns the error at once: the call of the handler is  *)
(* the last call it makes, so the bytes that overflowed are not written to *)
(* the sink, and the parser is left as it was when the handler answered,   *)
(* no later byte of the chunk having been processed.                       *)
(***************************************************************************)
\* the calls added to the trace by a step
Added(tr, tr2) == SubSeq(tr2, Len(tr) + 1, Len(tr2))

HandlerAsked(es) == \E i \in DOMAIN es : es[i].ev = "error_SizeLimit"

C11_IoErrorReturnedAtOnce ==
    [][(reply = "IoError" /\ HandlerAsked(Added(trace, trace')))
          => /\ outcome' = "io_error"
             /\ trace'[Len(trace')].ev = "error_SizeLimit"
             /\ Cardinality({i \in DOMAIN Added(trace, trace') :
                                Added(trace, trace')[i].ev = "error_SizeLimit"}) = 1
             /\ LET chunk == SubSeq(input, pos + 1, pos')
                    m == write(Machine, SubSeq(chunk, 1, parser'.buf_pos + 1))
                IN m.p = parser' /\ m.trace = trace']_vars

\* a single call whose handler answered with an I/O error before the end of
\* the chunk
C11_Witness ==
    /\ single /\ reply = "IoError" /\ outcome = "io_error"
    /\ parser.buf_pos + 1 < Len(input)
    /\ trace[Len(trace)].ev = "error_SizeLimit"

(***************************************************************************)
(* C12: after the handler answered SizeLimit with ContinueWithError, every *)
(* later write on the sink of the same part is made, and is preceded by a  *)
(* call of the handler.                                                    *)
(***************************************************************************)
C12_ContinueWithErrorAsksAgain ==
    reply = "ContinueWithError"
        => \A i \in DOMAIN trace :
               trace[i].ev = "error_SizeLimit"
                   => \A j \in (i + 1)..Len(trace) :
                          (trace[j].ev = "write" /\ trace[j].part = trace[i].part)
                              => /\ trace[j - 1].ev = "error_SizeLimit"
                                 /\ trace[j - 1].part = trace[i].part

(***************************************************************************)
(* C14: at the flush of a part bound to a Vec<u8> field the record's field *)
(* is assigned the concatenation, in call order, of the payloads written   *)
(* to the part's sink.                                                     *)
(***************************************************************************)
\* the kind of the field a name is bound to
KindOf(name) == form[CHOOSE i \in DOMAIN form : form[i].name = name].kind

C14_BytesStoredAreWritten ==
    \A i \in DOMAIN trace :
        (trace[i].ev = "flush" /\ KindOf(trace[i].name) = "bytes")
            => /\ i < Len(trace)
               /\ trace[i + 1].ev = "store"
               /\ trace[i + 1].part = trace[i].part
               /\ trace[i + 1].name = trace[i].name
               /\ trace[i + 1].data = Delivered(SubSeq(trace, 1, i), trace[i].part)

\* a value stored from more than one non-empty payload
C14_Witness ==
    \E i \in DOMAIN trace :
        /\ trace[i].ev = "store"
        /\ trace[i].data # <<>>
        /\ \E j, k \in 1..(i - 1) :
              /\ j < k
              /\ trace[j].ev = "write" /\ trace[j].part = trace[i].part
              /\ trace[k].ev = "write" /\ trace[k].part = trace[i].part
              /\ trace[j].data # <<>> /\ trace[k].data # <<>>

(***************************************************************************)
(* C13: when the conversion of the bytes accumulated for a part fails at   *)
(* the part's flush, the handler is called once, with the variant of the   *)
(* field's kind, the part's name and the accumulated bytes, and no value   *)
(* is assigned to the field for that part.                                 *)
(***************************************************************************)
ParseErrors ==
    {"error_ParseStrError", "error_ParseBoolError", "error_ParseIntError",
     "error_ParseFloatError", "error_NoError"}

VariantOf(kind) ==
    CASE kind = "string" -> "error_ParseStrError"
      [] kind = "bool" -> "error_ParseBoolError"
      [] kind = "i8" -> "error_ParseIntError"
      [] kind = "f64" -> "error_ParseFloatError"

C13_ConversionFailureReported ==
    \A i \in DOMAIN trace :
        (/\ trace[i].ev = "flush"
         /\ KindOf(trace[i].name) # "bytes"
         /\ ~try_from(KindOf(trace[i].name),
                      Delivered(SubSeq(trace, 1, i), trace[i].part)).ok)
            => /\ i < Len(trace)
               /\ trace[i + 1].ev = VariantOf(KindOf(trace[i].name))
               /\ trace[i + 1].name = trace[i].name
               /\ trace[i + 1].data = Delivered(SubSeq(trace, 1, i), trace[i].part)
               /\ \A j \in DOMAIN trace :
                      trace[j].part = trace[i].part
                          => /\ trace[j].ev # "store"
                             /\ trace[j].ev \in ParseErrors => j = i + 1

\* a second part for a field whose first part was converted and stored: the
\* conversion fails and the field keeps the first part's value
C13_Witness ==
    \E i, j \in DOMAIN trace :
        /\ i < j
        /\ trace[i].ev = "store" /\ trace[i].part = 1 /\ trace[i].name = NameS
        /\ trace[j].ev \in ParseErrors /\ trace[j].part = 2 /\ trace[j].name = NameS
        /\ KindOf(NameS) = "i8"
        /\ trace[i].num = 1

(***************************************************************************)
(* C15: no write is made on the sink of a part whose body is empty: its    *)
(* calls are open and then flush.                                          *)
(***************************************************************************)
C15_EmptyBodyNoWrite ==
    WellFormed
        => \A k \in DOMAIN parts :
               (HasSink(k) /\ parts[k].body = <<>>)
                   => Count(trace, "write", k) = 0

(***************************************************************************)
(* C16: a CR of a part body that is not followed by LF reaches the sink    *)
(* once, at its position in the body, and so does the byte after it; when  *)
(* the CR is the body's last byte, the CR after it starts the closing      *)
(* delimiter, so the part is flushed.                                      *)
(***************************************************************************)
\* body[i] is a CR that no LF follows
LoneCR(body, i) ==
    body[i] = CR /\ (i < Len(body) => body[i + 1] # LF)

C16_LoneCRDeliveredOnce ==
    (WellFormed /\ Consumed)
        => \A k \in DOMAIN parts :
               (HasSink(k) /\ FieldOf(k).max_size = None)
                   => \A i \in DOMAIN parts[k].body :
                          LoneCR(parts[k].body, i)
                              => /\ Len(Delivered(trace, k)) = Len(parts[k].body)
                                 /\ Delivered(trace, k)[i] = CR
                                 /\ i < Len(parts[k].body)
                                       => Delivered(trace, k)[i + 1] = parts[k].body[i + 1]
                                 /\ Count(trace, "flush", k) = 1

(***************************************************************************)
(* C17: a header line that holds a CR not followed by LF is handed to the  *)
(* header model with the CR and the byte after it, in order: the line      *)
(* collected by the header builder is the bytes of the stream up to the    *)
(* line's CR LF.                                                           *)
(***************************************************************************)
\* the bytes of t before its first CR LF
RECURSIVE RawLine(_)
RawLine(t) ==
    IF Len(t) < 2 THEN t
    ELSE IF t[1] = CR /\ t[2] = LF THEN <<>>
         ELSE <<t[1]>> \o RawLine(Tail(t))

\* the first header line of the stream
FirstLine == RawLine(SubSeq(input, Len(First) + 1, Len(input)))

HasLoneCR(line) == \E i \in DOMAIN line : LoneCR(line, i)

C17_HeaderKeepsLoneCR ==
    (/\ Len(input) >= Len(First) /\ SubSeq(input, 1, Len(First)) = First
     /\ HasLoneCR(FirstLine)
     /\ parser.state = "PostHeader"
     /\ Len(parser.headers_builder.lines) = 1)
        => parser.headers_builder.lines[1] = FirstLine

(***************************************************************************)
(* C18: when a write call ends with a candidate match of boundary_middle   *)
(* in progress, or with the match just completed, no byte of the candidate *)
(* has been written to the sink: once the bytes of the chunk before the    *)
(* candidate are processed, the only payloads written are ranges of the    *)
(* chunk that end where the candidate begins.                              *)
(***************************************************************************)
Min(a, b) == IF a < b THEN a ELSE b

\* the step ends h bytes into the chunk after the candidate's first byte in
\* it, the candidate being n bytes long at the end of the step
Holds(chunk, n, h) ==
    LET before == write(Machine, SubSeq(chunk, 1, Len(chunk) - h))
    IN (/\ before.out = "ok"
        /\ before.p.state = "Content"
        /\ before.p.compare_pos = n - h
        /\ SubSeq(chunk, Len(chunk) - h + 1, Len(chunk))
              = SubSeq(parser.boundary_middle, n - h + 1, n))
           => /\ SubSeq(trace', 1, Len(before.trace)) = before.trace
              /\ \A i \in (Len(before.trace) + 1)..Len(trace') :
                     trace'[i].ev = "write"
                         => \E j \in 1..(Len(chunk) - h + 1) :
                                trace'[i].data = SubSeq(chunk, j, Len(chunk) - h)

C18_CandidateHeldBack ==
    [][LET chunk == SubSeq(input, pos + 1, pos')
       IN /\ (parser'.state = "Content" /\ parser'.compare_pos > 0)
                => Holds(chunk, parser'.compare_pos,
                         Min(parser'.compare_pos, Len(chunk)))
          /\ (parser'.state = "PostBoundary" /\ parser'.compare_pos = 0
              /\ parser.state \in {"Content", "PostHeader", "Header"})
                => Holds(chunk, Len(parser.boundary_middle),
                         Min(Len(parser.boundary_middle), Len(chunk)))]_vars

\* a chunk that ends two bytes into the closing delimiter, the body before
\* it written in the same call
C18_Witness ==
    /\ parser.state = "Content" /\ parser.compare_pos = 2
    /\ parts[1].body = <<"1">>
    /\ trace[Len(trace)].ev = "write"
    /\ trace[Len(trace)].data = <<"1">>

(***************************************************************************)
(* C19: the sinks are opened in the order of their parts in the stream,    *)
(* and the sink of a part is flushed before the next sink is opened: the   *)
(* open and flush calls alternate, each flush on the sink opened last.     *)
(***************************************************************************)
OpensAndFlushes == SelectSeq(trace, LAMBDA e : e.ev \in {"open", "flush"})

C19_DocumentOrder ==
    LET calls == OpensAndFlushes
    IN \A i \in DOMAIN calls :
           /\ i % 2 = 1 => /\ calls[i].ev = "open"
                           /\ i > 2 => calls[i].part > calls[i - 2].part
                           /\ WellFormed => calls[i].name = parts[calls[i].part].name
           /\ i % 2 = 0 => /\ calls[i].ev = "flush"
                           /\ calls[i].part = calls[i - 1].part

\* two sinks opened and flushed one after the other
C19_Witness ==
    /\ Len(OpensAndFlushes) = 4
    /\ OpensAndFlushes[3].ev = "open"
    /\ OpensAndFlushes[3].part = 2
    /\ OpensAndFlushes[4].ev = "flush"

HookCalls == {"dispatch", "error_SizeLimit", "error_RequiredMissing"} \cup ParseErrors

C21_NoHookAfterFinish ==
    \A i \in DOMAIN trace : \A j \in DOMAIN trace :
        (trace[i].ev = "finish" /\ i < j) => trace[j].ev \notin HookCalls

(***************************************************************************)
(* C22: when the dispatcher returns no sink for a part, the part is        *)
(* silently consumed: no open, write or flush is made on any sink and the  *)
(* error handler is not called during that part, and the next part is      *)
(* parsed exactly as if the unbound part had not been there; when a sink   *)
(* is returned, open is called on it with the part's headers before any    *)
(* body byte is processed and its max_size becomes the active limit.       *)
(***************************************************************************)
\* the parts the dispatcher returned no sink for
Unbound(tr) == {tr[i].part : i \in {j \in DOMAIN tr : tr[j].ev = "dispatch" /\ ~tr[j].bound}}

\* the calls of part k without their part number
Calls(tr, k) ==
    Let(SelectSeq(tr, LAMBDA e : e.part = k /\ e.ev # "dispatch"), LAMBDA es :
        [i \in DOMAIN es |-> <<es[i].ev, es[i].name, es[i].data>>])

\* no call but the dispatcher's is made during an unbound part
UnboundSilent ==
    flushes = 0 =>
        \A k \in Unbound(trace) :
            \A i \in DOMAIN trace : trace[i].part = k => trace[i].ev = "dispatch"

\* the part after an unbound part gets the calls it gets without that part
UnboundTransparent ==
    (WellFormed /\ Consumed /\ single /\ flushes = 0 /\ Len(parts) = 2
        /\ ~HasSink(1))
        => Calls(trace, 2) = Calls(write(Fresh, StreamBytes(Tail(parts))).trace, 1)

\* a returned sink is opened at once, under the headers of its part, and its
\* max_size is the limit until the handler has been asked
BoundOpened ==
    /\ \A i \in DOMAIN trace :
           (trace[i].ev = "dispatch" /\ trace[i].bound)
               => /\ i < Len(trace)
                  /\ trace[i + 1].ev = "open"
                  /\ trace[i + 1].part = trace[i].part
                  /\ trace[i + 1].name = trace[i].name
    /\ (parser.state = "Content" /\ parser.process_content # None
           /\ Count(trace, "error_SizeLimit", PartOf(trace)) = 0)
           => /\ parser.content_size_max = Unwrap(parser.process_content).max_size
              /\ parser.headers # None
              /\ get_name(Unwrap(parser.headers))
                     = Some(Unwrap(parser.process_content).name)
              /\ \E f \in Range(form) :
                     /\ f.name = Unwrap(parser.process_content).name
                     /\ f.max_size = parser.content_size_max

C22_UnboundPartSkipped == UnboundSilent /\ UnboundTransparent /\ BoundOpened

(***************************************************************************)
(* The derive's reading of a record declaration, and the header model and  *)
(* the dispatcher applied to header lines given directly.                  *)
(***************************************************************************)
NameT == <<"t">>

\* a field declaration: its identifier, the attributes of #[multipart(...)]
\* (None for an attribute that is not given) and its type
Decl(ident, name, required, max_size, kind) ==
    [ident |-> ident, name |-> name, required |-> required,
     max_size |-> max_size, kind |-> kind]

\* MultipartField::new that ignores the name attribute
MultipartFieldNewUnnamed(decl) ==
    [field_name |-> decl.ident,
     name |-> decl.ident,
     required |-> IF decl.required # None THEN Unwrap(decl.required) ELSE FALSE,
     max_size |-> decl.max_size,
     kind |-> decl.kind]

\* MultipartField::new
MultipartFieldNew(decl) ==
    [field_name |-> decl.ident,
     name |-> IF decl.name # None THEN Unwrap(decl.name) ELSE decl.ident,
     required |-> IF decl.required # None THEN Unwrap(decl.required) ELSE FALSE,
     max_size |-> decl.max_size,
     kind |-> decl.kind]

\* MultipartStruct::new, the fields
MultipartStructNew(decls) == [i \in DOMAIN decls |-> MultipartFieldNew(decls[i])]

\* the declarations: field s without a name attribute, field q under the
\* part name t
Declared ==
    {<<Decl(NameS, None, r, l, "bytes"), Decl(NameQ, Some(NameT), r2, None, "string")>> :
        r \in {None, Some(TRUE), Some(FALSE)}, l \in Limits, r2 \in {None, Some(TRUE)}}

\* the names the record's own content_parser answers for
Hooks == {{}, {NameU}, {NameS, NameU}}

Quote == "\""
Quoted(v) == <<Quote>> \o v \o <<Quote>>

\* the raw values of the name and filename parameters
NameValues ==
    {Quoted(NameS), Quoted(NameQ), Quoted(NameT), Quoted(NameU), NameS,
     Quoted(Quoted(NameS)), Quoted(<<"a", "=", "b">>)}
FileValues ==
    {None, Some(Quoted(<<"f">>)), Some(Quoted(<<"a", ";", "b">>)),
     Some(Quoted(Quoted(<<"f">>)))}

\* Content-Disposition: form-data; name=<nv>[; filename=<fv>]
DispositionWith(nv, fv) ==
    ContentDisposition
        \o <<":", " ", "f", "o", "r", "m", "-", "d", "a", "t", "a", ";", " ">>
        \o NameKey \o <<"=">> \o nv
        \o (IF fv = None THEN <<>>
            ELSE <<";", " ">> \o FilenameKey \o <<"=">> \o Unwrap(fv))

\* Content-Disposition: form-data
DispositionBare ==
    ContentDisposition \o <<":", " ", "f", "o", "r", "m", "-", "d", "a", "t", "a">>

\* Content-Type: text/plain; charset=utf-8
CharsetLine ==
    TypeLine \o <<";", " ", "c", "h", "a", "r", "s", "e", "t", "=", "u", "t", "f", "-", "8">>

\* Date: 1:2
DateLine == <<"D", "a", "t", "e", ":", " ", "1", ":", "2">>

OtherLines == {<<>>, <<TypeLine>>, <<CharsetLine>>, <<DateLine>>}

Lines(nv, fv, others, front) ==
    IF front THEN others \o <<DispositionWith(nv, fv)>>
    ELSE <<DispositionWith(nv, fv)>> \o others

HeaderLists ==
    {Lines(nv, fv, o, b) : nv \in NameValues, fv \in FileValues,
                           o \in OtherLines, b \in BOOLEAN}
        \cup OtherLines \cup {<<DispositionBare>>}

InitHeaders ==
    /\ hlines \in HeaderLists
    /\ hbuilt = None
    /\ chosen = None
    /\ form \in {MultipartStructNew(d) : d \in Declared}
    /\ hooked \in Hooks
    /\ default_processor = None
    /\ parts = <<>>
    /\ input = <<>>
    /\ pos = 0
    /\ reply = "ContinueWithError"
    /\ parser = new_from_str(Boundary, form)
    /\ trace = <<>>
    /\ outcome = "ok"
    /\ flushes = 0
    /\ late = 0
    /\ single = FALSE
    /\ FromBoundary

\* Headers::new(&hlines)
BuildHeaders ==
    /\ hbuilt = None
    /\ hbuilt' = Some(HeadersNew(hlines))
    /\ outcome' = IF HeadersNew(hlines).ok THEN "ok" ELSE "panic"
    /\ UNCHANGED <<input, pos, parts, form, reply, parser, trace, flushes, late,
                   single, hooked, hlines, chosen, default_processor, token, maker>>

\* target.content_parser_generated(&target, &headers)
Dispatch ==
    /\ hbuilt # None /\ Unwrap(hbuilt).ok
    /\ chosen = None
    /\ LET sel == content_parser_generated(form, Unwrap(hbuilt).headers)
       IN /\ chosen' = Some(sel)
          /\ outcome' = IF sel.ok THEN "ok" ELSE "panic"
    /\ UNCHANGED <<input, pos, parts, form, reply, parser, trace, flushes, late,
                   single, hooked, hlines, hbuilt, default_processor, token, maker>>

NextHeaders ==
    \/ BuildHeaders
    \/ Dispatch

SpecHeaders == InitHeaders /\ [][NextHeaders]_vars

(***************************************************************************)
(* C23: the generated dispatcher returns, for a part whose                 *)
(* Content-Disposition name equals the part name of a bound field (the     *)
(* name attribute, or the field identifier when the attribute is absent),  *)
(* a sink for that field with params {that name, the declared max_size};   *)
(* for every other name it returns exactly what the record's               *)
(* content_parser returns.                                                 *)
(***************************************************************************)
\* the part name of a declared field
PartName(decl) == IF decl.name # None THEN Unwrap(decl.name) ELSE decl.ident

C23_DispatcherBindsByPartName ==
    (chosen # None /\ Unwrap(chosen).ok) =>
        \A decls \in Declared :
            form = MultipartStructNew(decls) =>
                LET name == Unwrap(get_name(Unwrap(hbuilt).headers))
                    sink == Unwrap(chosen).sink
                    bound == {i \in DOMAIN decls : PartName(decls[i]) = name}
                IN IF bound # {}
                   THEN /\ sink # None
                        /\ \E i \in bound :
                               /\ Unwrap(sink).name = name
                               /\ Unwrap(sink).max_size = decls[i].max_size
                               /\ Unwrap(sink).kind = decls[i].kind
                               /\ Unwrap(sink).raw_data = <<>>
                               /\ ~Unwrap(sink).is_done
                   ELSE sink = content_parser(Unwrap(hbuilt).headers)

\* the dispatcher has returned the sink of field q for its name attribute t
C23_Witness ==
    /\ chosen # None /\ Unwrap(chosen).ok
    /\ get_name(Unwrap(hbuilt).headers) = Some(NameT)
    /\ Unwrap(chosen).sink # None
    /\ Unwrap(Unwrap(chosen).sink).kind = "string"

(***************************************************************************)
(* C24: the generated get_all_required returns exactly the part names of   *)
(* the fields declared with required = true (and of no other field), and   *)
(* this is the set the parser starts with as its unseen-required set.      *)
(***************************************************************************)
\* the part names of the fields declared with required = true, in order
DeclaredRequired(decls) ==
    LET RECURSIVE req(_)
        req(ds) == IF ds = <<>> THEN <<>>
                   ELSE (IF Head(ds).required = Some(TRUE)
                         THEN <<PartName(Head(ds))>> ELSE <<>>)
                        \o req(Tail(ds))
    IN req(decls)

\* what the parser starts with when the record implements get_all_required
\* itself
RequiredNamesOfRecord ==
    \A decls \in Declared :
        form = MultipartStructNew(decls) =>
            new_from_str(Boundary, form).unprocessed = DeclaredRequired(decls)

C24_RequiredNamesGenerated ==
    /\ \A decls \in Declared :
           form = MultipartStructNew(decls) =>
               /\ generated_get_all_required(form).ok
               /\ generated_get_all_required(form).value = DeclaredRequired(decls)
    /\ RequiredNamesOfRecord

(***************************************************************************)
(* C25: for any list of header lines that contains a Content-Disposition   *)
(* line with name and filename parameters, Headers::get_name and           *)
(* Headers::get_filename return those parameter values without their       *)
(* surrounding quotes, whatever other header lines are present; each       *)
(* accessor returns absent when the header or the parameter is missing.    *)
(***************************************************************************)
\* v is a value between one pair of double quotes, with no other quote
WellQuoted(v) ==
    /\ Len(v) >= 2
    /\ v[1] = Quote /\ v[Len(v)] = Quote
    /\ \A i \in 2..(Len(v) - 1) : v[i] # Quote

\* v has no double quote at all
Unquoted(v) == \A i \in DOMAIN v : v[i] # Quote

\* the value without its surrounding quotes
Bare(v) == IF WellQuoted(v) THEN SubSeq(v, 2, Len(v) - 1) ELSE v

HasDisposition(ls) ==
    \E i \in DOMAIN ls :
        Len(ls[i]) >= Len(ContentDisposition)
            /\ SubSeq(ls[i], 1, Len(ContentDisposition)) = ContentDisposition

C25_AccessorsReturnParameters ==
    hbuilt # None =>
        /\ \A nv \in NameValues : \A fv \in FileValues :
             \A o \in OtherLines : \A b \in BOOLEAN :
               (/\ hlines = Lines(nv, fv, o, b)
                /\ WellQuoted(nv) \/ Unquoted(nv)
                /\ fv # None => WellQuoted(Unwrap(fv)))
                   => /\ Unwrap(hbuilt).ok
                      /\ get_name(Unwrap(hbuilt).headers) = Some(Bare(nv))
                      /\ get_filename(Unwrap(hbuilt).headers)
                             = IF fv = None THEN None ELSE Some(Bare(Unwrap(fv)))
        /\ (~HasDisposition(hlines) /\ Unwrap(hbuilt).ok)
               => /\ get_name(Unwrap(hbuilt).headers) = None
                  /\ get_filename(Unwrap(hbuilt).headers) = None
        /\ hlines = <<DispositionBare>>
               => /\ Unwrap(hbuilt).ok
                  /\ get_name(Unwrap(hbuilt).headers) = None
                  /\ get_filename(Unwrap(hbuilt).headers) = None

(***************************************************************************)
(* C26: when a header line is parsed, each parameter value has its         *)
(* surrounding double quotes stripped exactly once: one leading and one    *)
(* trailing quote are removed and any further quote characters stay part   *)
(* of the value.                                                           *)
(***************************************************************************)
\* v without one leading and one trailing double quote
StripOnce(v) ==
    LET a == IF v # <<>> /\ v[1] = Quote THEN Tail(v) ELSE v
    IN IF a # <<>> /\ a[Len(a)] = Quote THEN SubSeq(a, 1, Len(a) - 1) ELSE a

C26_QuotesStrippedOnce ==
    (hbuilt # None /\ Unwrap(hbuilt).ok) =>
        \A nv \in NameValues : \A fv \in FileValues :
          \A o \in OtherLines : \A b \in BOOLEAN :
            hlines = Lines(nv, fv, o, b)
                => /\ get_name(Unwrap(hbuilt).headers) = Some(StripOnce(nv))
                   /\ fv # None
                          => get_filename(Unwrap(hbuilt).headers)
                                 = Some(StripOnce(Unwrap(fv)))

(***************************************************************************)
(* A DefaultProcessor driven directly: its caller makes up to MaxCalls     *)
(* calls of open, write and flush in any order; trace holds the calls.     *)
(***************************************************************************)
MaxCalls == 5

SinkData == {<<"a">>, <<"b">>}

InitSink ==
    /\ default_processor = Some(DefaultProcessorNew(NameS, None))
    /\ trace = <<>>
    /\ outcome = "ok"
    /\ hooked = {}
    /\ hlines = <<>>
    /\ hbuilt = None
    /\ chosen = None
    /\ form = FormOf(FALSE, None)
    /\ parser = new_from_str(Boundary, form)
    /\ parts = <<>>
    /\ input = <<>>
    /\ pos = 0
    /\ reply = "ContinueWithError"
    /\ flushes = 0
    /\ late = 0
    /\ single = FALSE
    /\ FromBoundary

SinkIdle ==
    UNCHANGED <<input, pos, parts, form, reply, parser, flushes, late, single,
                hooked, hlines, hbuilt, chosen, token, maker>>

\* ProcessContent::open on the DefaultProcessor
SinkOpen ==
    /\ outcome # "panic" /\ Len(trace) < MaxCalls
    /\ default_processor' = Some(default_processor_open(Unwrap(default_processor)))
    /\ trace' = Append(trace, Event("open", 0, Unwrap(default_processor).name))
    /\ outcome' = "ok"
    /\ SinkIdle

\* ProcessContent::write on the DefaultProcessor
SinkWrite(data) ==
    /\ outcome # "panic" /\ Len(trace) < MaxCalls
    /\ LET written == default_processor_write(Unwrap(default_processor), data)
       IN /\ default_processor' = Some(written.d)
          /\ outcome' = IF written.ok THEN "ok" ELSE "panic"
    /\ trace' = Append(trace, [Event("write", 0, Unwrap(default_processor).name)
                                 EXCEPT !.data = data])
    /\ SinkIdle

\* ProcessContent::flush on the DefaultProcessor
SinkFlush ==
    /\ outcome # "panic" /\ Len(trace) < MaxCalls
    /\ default_processor' = Some(default_processor_flush(Unwrap(default_processor)))
    /\ trace' = Append(trace, Event("flush", 0, Unwrap(default_processor).name))
    /\ outcome' = "ok"
    /\ SinkIdle

NextSink ==
    \/ SinkOpen
    \/ \E data \in SinkData : SinkWrite(data)
    \/ SinkFlush

SpecSink == InitSink /\ [][NextSink]_vars

(***************************************************************************)
(* C27: the accumulating sink (DefaultProcessor) can be re-used across     *)
(* parts: open on a flushed sink clears the buffer and resets done, so     *)
(* that after the next flush the buffer holds only the bytes written since *)
(* that open; a write made after flush without an intervening open panics  *)
(* instead of appending.                                                   *)
(***************************************************************************)
\* after the calls tr the sink is flushed: a flush with no open after it
FlushedBy(tr) ==
    \E j \in DOMAIN tr :
        tr[j].ev = "flush" /\ \A k \in (j + 1)..Len(tr) : tr[k].ev # "open"

\* the last open made on a flushed sink, 0 when there is none
Reopened(tr) ==
    LET opens == {i \in DOMAIN tr : tr[i].ev = "open" /\ FlushedBy(SubSeq(tr, 1, i - 1))}
    IN IF opens = {} THEN 0 ELSE CHOOSE i \in opens : \A j \in opens : j <= i

\* the calls that returned
Returned == IF outcome = "panic" THEN SubSeq(trace, 1, Len(trace) - 1) ELSE trace

C27_SinkReusable ==
    LET d == Unwrap(default_processor)
    IN /\ d.raw_data = Payloads(SubSeq(Returned, Reopened(Returned) + 1, Len(Returned)))
       /\ d.is_done = FlushedBy(Returned)
       /\ outcome = "panic"
              <=> /\ trace # <<>>
                  /\ trace[Len(trace)].ev = "write"
                  /\ FlushedBy(SubSeq(trace, 1, Len(trace) - 1))

\* a sink written, flushed, opened again, written and flushed holds the
\* second payload only
C27_Witness ==
    /\ outcome = "ok"
    /\ Len(trace) = 5
    /\ trace[1].ev = "write" /\ trace[1].data = <<"a">>
    /\ trace[2].ev = "flush"
    /\ trace[3].ev = "open"
    /\ trace[4].ev = "write" /\ trace[4].data = <<"b">>
    /\ trace[5].ev = "flush"
    /\ Unwrap(default_processor).raw_data = <<"b">>
    /\ Unwrap(default_processor).is_done

(***************************************************************************)
(* C28: once the parser has reached the Finished phase, every further      *)
(* write call leaves the parser's phase, cursor, headers, unseen-required  *)
(* set and size counters unchanged and makes no call on any sink, on the   *)
(* dispatcher or on the error handler, whatever bytes it is given.         *)
(***************************************************************************)
C28_FinishedIgnoresWrites ==
    [][(parser.state = "Finished" /\ pos' > pos)
          => /\ parser'.state = "Finished"
             /\ parser'.compare_pos = parser.compare_pos
             /\ parser'.headers = parser.headers
             /\ parser'.headers_builder = parser.headers_builder
             /\ parser'.unprocessed = parser.unprocessed
             /\ parser'.content_size = parser.content_size
             /\ parser'.content_size_max = parser.content_size_max
             /\ parser'.process_content = parser.process_content
             /\ trace' = trace
             /\ outcome' = "ok"]_vars

\* the bytes after the closing delimiter have been passed to write
C28_Witness ==
    /\ parser.state = "Finished"
    /\ input = StreamBytes(parts) \o Trailer
    /\ pos = Len(input)
    /\ outcome = "ok"

(***************************************************************************)
(* C29: in the Content phase, when a byte c fails to extend a partial      *)
(* match of length cp > 0, the parser behaves like a Knuth-Morris-Pratt    *)
(* matcher over boundary_middle: the new compare_pos equals the length of  *)
(* the longest suffix of the bytes consumed so far that is a proper prefix *)
(* of boundary_middle, and every consumed byte outside that new candidate  *)
(* is delivered to the sink exactly once and in stream order, so that a    *)
(* delimiter starting inside or right after a failed candidate is still    *)
(* recognised.                                                             *)
(***************************************************************************)
\* number of bytes of the stream before the body of the first part
BodyStart == Len(First) + Len(HeaderBlock(parts[1].lines))

\* the bytes of the first part's body and closing delimiter consumed so far
ConsumedBody == SubSeq(input, BodyStart + 1, pos)

\* length of the longest suffix of s that is a proper prefix of Middle
Border(s) ==
    LET ks == {k \in 0..Min(Len(s), Len(Middle) - 1) :
                  SubSeq(s, Len(s) - k + 1, Len(s)) = SubSeq(Middle, 1, k)}
    IN CHOOSE k \in ks : \A j \in ks : j <= k

InFirstPart ==
    WellFormed /\ outcome = "ok" /\ flushes = 0
        /\ pos >= BodyStart /\ pos < DelimEnd(1)

\* the candidate is the longest one the consumed bytes end with
CandidateIsBorder ==
    InFirstPart => /\ parser.state = "Content"
                   /\ parser.compare_pos = Border(ConsumedBody)

\* the bytes before the candidate have been delivered, once and in order
OutsideCandidateDelivered ==
    (InFirstPart /\ HasSink(1) /\ FieldOf(1).max_size = None)
        => Delivered(trace, 1)
               = SubSeq(ConsumedBody, 1, Len(ConsumedBody) - Border(ConsumedBody))

\* the delimiter that closes the first part is recognised
DelimiterRecognised ==
    (WellFormed /\ outcome = "ok" /\ flushes = 0 /\ pos = DelimEnd(1))
        => parser.state = "PostBoundary"

C29_MatchesLikeKMP ==
    CandidateIsBorder /\ OutsideCandidateDelivered /\ DelimiterRecognised

(***************************************************************************)
(* C30: for a part with two or more header lines, every header line handed *)
(* to the header model is byte-for-byte the line received between the      *)
(* CR-LF terminators: on the PostHeader mismatch that starts the next      *)
(* line, no CR is inserted in front of the line and the line's first byte  *)
(* is not dropped, so each header is stored under its received name.       *)
(***************************************************************************)
\* the lines the builder holds are the first lines of the part being read
LinesAsReceived ==
    (WellFormed /\ outcome = "ok" /\ parser.state \in {"Header", "PostHeader"}
        /\ PartOf(trace) < Len(parts))
        => LET received == parts[PartOf(trace) + 1].lines
               held == parser.headers_builder.lines
           IN /\ Len(held) <= Len(received)
              /\ \A i \in DOMAIN held : held[i] = received[i]

\* the headers of the part being read are those of its lines
StoredUnderReceivedName ==
    (WellFormed /\ outcome = "ok" /\ parser.state = "Content" /\ PartOf(trace) >= 1)
        => parser.headers = Some(HeadersNew(parts[PartOf(trace)].lines).headers)

C30_HeaderLinesAsReceived == LinesAsReceived /\ StoredUnderReceivedName

(***************************************************************************)
(* C31: in the PostBoundary phase the parser goes to Header only when the  *)
(* bytes consumed since the completed delimiter are exactly the divider    *)
(* CR LF, and to Finished only when they are exactly the epilogue `--`; a  *)
(* byte pair that matches neither candidate in its first byte (a LF, or a  *)
(* dash after another byte) does not start a new part and does not finish  *)
(* the stream.                                                             *)
(***************************************************************************)
\* in PostBoundary, the bytes consumed since the delimiter and the next one
SinceDelimiter == SubSeq(input, pos - parser.compare_pos + 1, pos + 1)

C31_PostBoundaryExact ==
    [][(pos' = pos + 1 /\ parser.state = "PostBoundary" /\ outcome' = "ok")
          => /\ parser'.state = "Header" => SinceDelimiter = <<CR, LF>>
             /\ parser'.state = "Finished" => SinceDelimiter = <<DASH, DASH>>]_vars

(***************************************************************************)
(* C32: in the BoundaryFirst phase, the first input byte that differs from *)
(* the corresponding byte of `--B CR LF` (a preamble byte included) aborts *)
(* parsing with a fatal error before any dispatcher, sink or error-handler *)
(* call; if all bytes match, the parser enters Header with compare_pos = 0 *)
(* and no current headers exactly when the last byte of `--B CR LF` is     *)
(* consumed.                                                               *)
(***************************************************************************)
\* the positions consumed so far at which the stream differs from the first
\* boundary
FirstMismatches ==
    {i \in 1..Min(pos, Len(parser.boundary_first)) :
        input[i] # parser.boundary_first[i]}

C32_FirstBoundaryOrFatal ==
    flushes = 0 =>
        IF FirstMismatches # {}
        THEN /\ outcome = "panic"
             /\ parser.state = "BoundaryFirst"
             /\ trace = <<>>
        ELSE pos <= Len(parser.boundary_first)
                 => /\ outcome = "ok"
                    /\ trace = <<>>
                    /\ IF pos < Len(parser.boundary_first)
                       THEN parser.state = "BoundaryFirst" /\ parser.compare_pos = pos
                       ELSE /\ parser.state = "Header"
                            /\ parser.compare_pos = 0
                            /\ parser.headers = None

\* a preamble byte has been passed to write
C32_Witness ==
    /\ input = <<"a", DASH>>
    /\ pos = 1
    /\ outcome = "panic"

(***************************************************************************)
(* C33: in every reachable state, whenever the parser compares an input    *)
(* byte against a delimiter, compare_pos is a valid index of that          *)
(* delimiter: compare_pos < len(first) in BoundaryFirst, < 2 in Header,    *)
(* PostHeader and PostBoundary (for both divider and epilogue), and        *)
(* < len(middle) in Content.                                               *)
(***************************************************************************)
\* the delimiters the next byte is compared against
Awaited ==
    CASE parser.state = "BoundaryFirst" -> {parser.boundary_first}
      [] parser.state \in {"Header", "PostHeader"} -> {parser.empty_string}
      [] parser.state = "Content" -> {parser.boundary_middle}
      [] parser.state = "PostBoundary" -> {parser.divider, parser.epilogue}
      [] parser.state = "Finished" -> {}

C33_CursorInsideDelimiter ==
    (outcome = "ok" /\ pos < Len(input))
        => \A delimiter \in Awaited : parser.compare_pos < Len(delimiter)

(***************************************************************************)
(* C34: the parser starts in BoundaryFirst and its phase changes only      *)
(* along the edges BoundaryFirst->Header, Header->PostHeader,              *)
(* PostHeader->Header, PostHeader->Content, Content->PostBoundary,         *)
(* PostBoundary->Header and PostBoundary->Finished; Finished is absorbing  *)
(* and no write or flush call ever returns the parser to BoundaryFirst.    *)
(***************************************************************************)
Edges ==
    {<<"BoundaryFirst", "Header">>, <<"Header", "PostHeader">>,
     <<"PostHeader", "Header">>, <<"PostHeader", "Content">>,
     <<"Content", "PostBoundary">>, <<"PostBoundary", "Header">>,
     <<"PostBoundary", "Finished">>}

C34_PhaseEdges ==
    /\ parser.state = "BoundaryFirst"
    /\ [][/\ pos' = pos + 1
                => \/ parser'.state = parser.state
                   \/ <<parser.state, parser'.state>> \in Edges
          /\ pos' = pos => parser'.state = parser.state
          /\ parser.state = "Finished" => parser'.state = "Finished"
          /\ parser'.state = "BoundaryFirst" => parser.state = "BoundaryFirst"]_vars

\* a stream of two parts has been passed to the end
C34_Witness ==
    /\ parser.state = "Finished"
    /\ Len(parts) = 2
    /\ pos = Len(input)
    /\ outcome = "ok"

(***************************************************************************)
(* C35: the size-limit state is per part: on entering Content the          *)
(* disposition is reset to ContinueWithError, content_size to 0 and the    *)
(* active max_size to the new sink's declared limit, so that after a Skip  *)
(* or ContinueWithoutError answer (or a cleared limit) in part k, part k+1 *)
(* is written to its sink from its first byte and checked against its own  *)
(* max_size from zero.                                                     *)
(***************************************************************************)
\* right after the entry into Content: no write has been tried yet
EnteredContent ==
    /\ parser.state = "Content"
    /\ trace # <<>>
    /\ trace[Len(trace)].ev \in {"open", "dispatch"}

SizeStateReset ==
    EnteredContent
        => /\ parser.on_error = "ContinueWithError"
           /\ parser.content_size = 0
           /\ ~parser.error_fired
           /\ parser.content_size_max
                  = IF parser.process_content = None THEN None
                    ELSE Unwrap(parser.process_content).max_size

\* the second part gets the calls it gets as the only part of a stream
SecondPartOnItsOwn ==
    (WellFormed /\ Consumed /\ single /\ flushes = 0 /\ Len(parts) = 2
        /\ PartOf(trace) = 2)
        => Calls(trace, 2) = Calls(write(Fresh, StreamBytes(<<parts[2]>>)).trace, 1)

C35_SizeStatePerPart == SizeStateReset /\ SecondPartOnItsOwn

\* the handler answered Skip in the first part and is asked again in the
\* second one
C35_Witness ==
    /\ WellFormed /\ Consumed /\ single /\ Len(parts) = 2
    /\ reply = "Skip"
    /\ Count(trace, "error_SizeLimit", 1) = 1
    /\ Count(trace, "error_SizeLimit", 2) = 1

FormListed ==
    <<[name |-> NameS, required |-> TRUE, max_size |-> None, kind |-> "bytes"],
      [name |-> NameU, required |-> TRUE, max_size |-> None, kind |-> "listed"]>>

ListedParts ==
    {<<Part(NameU, b)>> : b \in ShortBodies}
        \cup {<<Part(NameU, <<"1">>), Part(NameS, <<"1">>)>>,
              <<Part(NameS, <<"1">>), Part(NameQ, <<"1">>)>>}

InitListed ==
    /\ parts \in ListedParts
    /\ input = StreamBytes(parts)
    /\ pos = 0
    /\ form = FormListed
    /\ reply = "ContinueWithError"
    /\ parser = new_from_str(Boundary, form)
    /\ trace = <<>>
    /\ outcome = "ok"
    /\ flushes = 0
    /\ late = 0
    /\ single = FALSE
    /\ NoneApart
    /\ FromBoundary

SpecListed == InitListed /\ [][NextWide]_vars

(***************************************************************************)
(* C37: the unseen-required set only shrinks: no step ever adds a name to  *)
(* it, and a name leaves it exactly at the step in which open is called on *)
(* the sink of a part with that name (never for a part for which no open   *)
(* fires, and never in any phase other than the entry into Content).       *)
(***************************************************************************)
\* the names of the parts whose sink was opened in the step
OpenedIn(tr, tr2) ==
    {Added(tr, tr2)[i].name : i \in {j \in DOMAIN Added(tr, tr2) :
                                          Added(tr, tr2)[j].ev = "open"}}

C37_RequiredLeavesAtOpen ==
    [][/\ Range(parser'.unprocessed) \subseteq Range(parser.unprocessed)
       /\ Range(parser.unprocessed) \ Range(parser'.unprocessed)
              = Range(parser.unprocessed) \cap OpenedIn(trace, trace')]_vars

(***************************************************************************)
(* The parser constructed for any boundary token, by either constructor,   *)
(* and fed the first boundary line of that token.                          *)
(***************************************************************************)
TokenBytes == {"X", DASH, CR}

Tokens == SeqsUpTo(TokenBytes, MaxToken)

InitBoundary ==
    /\ token \in Tokens
    /\ maker \in {"str", "vec"}
    /\ form = FormOf(FALSE, None)
    /\ parser = IF maker = "str" THEN new_from_str(token, form)
                ELSE new_from_vec(token, form)
    /\ parts = <<>>
    /\ input = <<DASH, DASH>> \o token \o <<CR, LF>>
    /\ pos = 0
    /\ reply = "ContinueWithError"
    /\ trace = <<>>
    /\ outcome = "ok"
    /\ flushes = 0
    /\ late = 0
    /\ single = FALSE
    /\ NoneApart

SpecBoundary == InitBoundary /\ [][NextWide]_vars

NameInContent ==
    IF parser.state = "Content" /\ parser.headers # None
    THEN get_name(Unwrap(parser.headers)) ELSE None

C39_FlushTouchesNoSink ==
    [][flushes' = flushes + 1
          => LET calls == Added(trace, trace')
             IN /\ parser' = parser
                /\ \A i \in DOMAIN calls :
                       /\ calls[i].ev \in {"error_RequiredMissing", "finish"}
                       /\ (calls[i].ev = "error_RequiredMissing"
                              /\ NameInContent # None)
                             => Unwrap(NameInContent) \notin Range(calls[i].names)]_vars

\* flush() was called while the required part s was in Content, a CR of its
\* body withheld from the sink, and another required name was reported
C39_Witness ==
    /\ flushes = 1 /\ late = 0 /\ outcome = "ok"
    /\ parser.state = "Content" /\ parser.compare_pos > 0
    /\ parser.process_content # None
    /\ NameInContent = Some(NameS)
    /\ NameS \in Range(get_all_required(form))
    /\ Count(trace, "flush", PartOf(trace)) = 0
    /\ trace[Len(trace)].ev = "finish"
    /\ trace[Len(trace) - 1].ev = "error_RequiredMissing"

(***************************************************************************)
(* C40: for every well-formed stream (first boundary, one or more parts    *)
(* each with at least one header line and a body that does not contain     *)
(* CR LF -- B, then the closing CR LF -- B --), once all its bytes have    *)
(* been passed to write, under any chunking, the parser is in the Finished *)
(* phase and every sink that was opened has been flushed; this holds also  *)
(* when a body ends with a CR or with a proper prefix of the delimiter.    *)
(***************************************************************************)
\* the parts whose sink was opened and not flushed
LeftOpen(tr) ==
    {k \in 1..PartOf(tr) : Count(tr, "open", k) > Count(tr, "flush", k)}

C40_StreamEndsFinishedAndFlushed ==
    (WellFormed /\ pos = Len(input) /\ outcome = "ok" /\ flushes = 0)
        => /\ parser.state = "Finished"
           /\ LeftOpen(trace) = {}

====
